---- MODULE Spec2Model ----
(***************************************************************************)
(* Model of the food-fight-robots backend (src-tauri): the three Meshy     *)
(* poll loops of meshy.rs and the orchestrator run_generation_pipeline of  *)
(* lib.rs, with the robots table of db.rs, and the reading of the stats    *)
(* reply in gemini.rs (direct deserialization and the fallback search).    *)
(*                                                                         *)
(* Rust values are modelled as follows.                                    *)
(*   Option<T>        <<>> for None, <<x>> for Some(x)                     *)
(*   Result<T, String> [ok |-> TRUE, val |-> <<x>>] for Ok(x) (<<>> for    *)
(*                    Ok(())), [ok |-> FALSE, val |-> text] for Err(text)  *)
(*   String built by format!  the tuple of its literal and interpolated    *)
(*                    parts, so that "the message is part of the error     *)
(*                    text" is a statement about the tuple's elements      *)
(***************************************************************************)
EXTENDS Integers, Sequences, FiniteSets, TLC

VARIABLES
    pc,         \* position of the running command (orchestrator or poll harness)
    env,        \* process environment: which credentials are set
    input_ok,   \* whether base64_image decodes as base64
    stats,      \* Option<RobotStatus> held by the run
    gen_image,  \* Option<String>: the concept image (base64) held by the run
    ids,        \* job identifiers held by the run: task_id, rig_task_id, idle/attack
    submits,    \* creation requests the Meshy service has received, in order
    poll,       \* per job: the poll loop's frame (running, attempts) and GETs sent
    ret,        \* per job: Option<Result> the poll loop returned
    files,      \* app data dir: file name -> content written
    robots,     \* the robots table: sequence of RobotRecord
    result,     \* Option<Result>: what the command returned to its caller
    sink,       \* Option of the last event handed to app.emit
    hist,       \* poll harness only: what the job's status endpoint answered so far
    log,        \* the run's progress notifications and the stage calls it started, in order
    reply,      \* Option of the stats response's candidate text, as the JSON value it parses to
    runs,       \* two-run file harness only: per run, its mesh job id and files written
    db_lock     \* the Mutex around the connection: "free", or held by "run" or "query"

vars == <<pc, env, input_ok, stats, gen_image, ids, submits, poll, ret, files,
          robots, result, sink, hist, log, reply, runs, db_lock>>

----------------------------------------------------------------------------
(* Values *)

None == <<>>
Some(x) == <<x>>

Ok(x) == [ok |-> TRUE, val |-> x]
Err(text) == [ok |-> FALSE, val |-> text]

Jobs == {"mesh", "rig", "idle", "attack"}
AnimJobs == {"idle", "attack"}

\* let max_attempts = 120 (the same in the three loops)
max_attempts == 120

\* Identifiers the Meshy service hands out for created jobs.
MeshIds == {"m1"}
RigIds == {"r1"}
AnimIds(k) == IF k = "idle" THEN {"a0"} ELSE {"a92"}

\* ActionId with the two animation presets exchanged
ActionId_Swapped(k) == IF k = "idle" THEN 92 ELSE 0

\* action_id passed to create_animation_task
ActionId(k) == IF k = "idle" THEN 0 ELSE 92
\* anim_name passed to poll_for_animation_glb
AnimName(k) == IF k = "idle" THEN "Idle" ELSE "Attack"

\* Terminal payload URL the service reports for a job.
UrlOf(k) ==
    CASE k = "mesh" -> "https://x/y.glb"
      [] k = "idle" -> "https://x/idle.glb"
      [] k = "attack" -> "https://x/attack.glb"
      [] OTHER -> "https://x/rig"

ProgressVals == {0, 40}
RemoteMessages == {"input mesh invalid"}

----------------------------------------------------------------------------
(* What one GET of a status endpoint can come back with.                   *)
(*   t = "transport"  send() failed                                        *)
(*   t = "http_err"   a response whose status is not 2xx (here 503)        *)
(*   t = "bad_json"   a 2xx response whose body does not deserialize       *)
(*   t = "json"       a 2xx response that deserializes into the fields     *)
(*                    status, progress, urls (model_urls.glb for a mesh or *)
(*                    rig job, result.animation_glb_url for an animation), *)
(*                    task_error                                           *)
(* urls is an Option of an Option: None (no object), Some(None) (object    *)
(* without the URL), Some(Some(u)).                                        *)

Json(status, progress, urls, task_error) ==
    [t |-> "json", status |-> status, progress |-> progress,
     urls |-> urls, task_error |-> task_error]

TransportError == [t |-> "transport", status |-> "", progress |-> 0,
                   urls |-> None, task_error |-> None]
HttpError == [t |-> "http_err", status |-> "503", progress |-> 0,
              urls |-> None, task_error |-> None]
BadJson == [t |-> "bad_json", status |-> "", progress |-> 0,
            urls |-> None, task_error |-> None]

NonTerminalStatuses == {"PENDING", "IN_PROGRESS"}
FailureStatuses == {"FAILED", "CANCELED"}
\* a status string outside the documented five
UnknownStatuses == {"EXPIRED"}

Responses(k) ==
    {TransportError, HttpError, BadJson}
    \cup {Json(s, p, None, None) : s \in NonTerminalStatuses, p \in ProgressVals}
    \cup {Json("SUCCEEDED", 100, u, None) :
            u \in {None, Some(None), Some(Some(UrlOf(k)))}}
    \cup {Json(s, 0, None, m) :
            s \in FailureStatuses, m \in {None} \cup {Some(x) : x \in RemoteMessages}}
    \cup {Json(s, 0, None, None) : s \in UnknownStatuses}

IsStatus(resp, S) == resp.t = "json" /\ resp.status \in S

\* the service finished the job and reports a usable result (rigging has no payload)
WellFormedSuccess(k, resp) ==
    /\ IsStatus(resp, {"SUCCEEDED"})
    /\ (k = "rig" \/ resp.urls = Some(Some(UrlOf(k))))

----------------------------------------------------------------------------
(* meshy.rs: the status call and the three poll loops, one iteration each. *)
(* An iteration yields the frame's new attempts, what the loop returns     *)
(* (None while it keeps polling) and the progress text it emits, if any.   *)

Iter(attempts, r, emit) == [attempts |-> attempts, ret |-> r, emit |-> emit]

\* get_task_status: every failure, the missing credential included, is an Err(String)
get_task_status(api_key, resp) ==
    IF ~api_key THEN Err(<<"MESHY_AI_API_KEY not found">>)
    ELSE IF resp.t = "transport"
      THEN Err(<<"Failed to send task status request: ", "connection error">>)
    ELSE IF resp.t = "http_err" THEN Err(<<"Meshy API Error: ", resp.status>>)
    ELSE IF resp.t = "bad_json"
      THEN Err(<<"Failed to parse task status response: ", "decode error">>)
    ELSE Ok(<<resp>>)

\* MeshTimedOut with the bound off by one more pass
MeshTimedOut_Late(attempts) == attempts > max_attempts + 1

\* poll_for_glb_url, the check at the top of the loop
MeshTimedOut(attempts) == attempts > max_attempts

\* MeshOnStatus with the early return of the "SUCCEEDED" arm lost: the loop sleeps and
\* polls again
MeshOnStatus_NoReturn(attempts, status) ==
    IF status.status \in {"SUCCEEDED", "PENDING", "IN_PROGRESS"} THEN
        Iter(attempts + 1, None, None)
    ELSE IF status.status = "FAILED" THEN
        Iter(attempts, Some(Err(<<"Meshy Task Failed: ", "Unknown error">>)), None)
    ELSE Iter(attempts, Some(Err(<<"Unknown status: ", status.status>>)), None)

\* MeshOnStatus with the emit moved into an "IN_PROGRESS"-only arm: a PENDING
\* observation is waited out silently
MeshOnStatus_SilentPending(attempts, status) ==
    IF status.status = "SUCCEEDED" THEN
        IF status.urls # None /\ status.urls[1] # None
        THEN Iter(attempts, Some(Ok(<<status.urls[1][1]>>)), None)
        ELSE Iter(attempts,
                  Some(Err(<<"Task succeeded but no GLB URL found in response">>)), None)
    ELSE IF status.status = "FAILED" THEN
        LET err_msg == IF status.task_error # None THEN status.task_error[1]
                       ELSE "Unknown error"
        IN  Iter(attempts, Some(Err(<<"Meshy Task Failed: ", err_msg>>)), None)
    ELSE IF status.status = "PENDING" THEN Iter(attempts + 1, None, None)
    ELSE IF status.status = "IN_PROGRESS" THEN
        Iter(attempts + 1, None,
             Some(<<"Image to 3D Base Model: ", ToString(status.progress), "%">>))
    ELSE Iter(attempts, Some(Err(<<"Unknown status: ", status.status>>)), None)

\* poll_for_glb_url, the match on status.status.as_str() of an Ok(status)
MeshOnStatus(attempts, status) ==
    IF status.status = "SUCCEEDED" THEN
        IF status.urls # None /\ status.urls[1] # None
        THEN Iter(attempts, Some(Ok(<<status.urls[1][1]>>)), None)
        ELSE Iter(attempts,
                  Some(Err(<<"Task succeeded but no GLB URL found in response">>)), None)
    ELSE IF status.status = "FAILED" THEN
        LET err_msg == IF status.task_error # None THEN status.task_error[1]
                       ELSE "Unknown error"
        IN  Iter(attempts, Some(Err(<<"Meshy Task Failed: ", err_msg>>)), None)
    ELSE IF status.status \in {"PENDING", "IN_PROGRESS"} THEN
        Iter(attempts + 1, None,
             Some(<<"Image to 3D Base Model: ", ToString(status.progress), "%">>))
    ELSE Iter(attempts, Some(Err(<<"Unknown status: ", status.status>>)), None)

\* MeshIter with `attempts += 1` missing from the Err(e) arm: a fetch error costs
\* no attempt
MeshIter_FreeRetry(api_key, attempts, resp) ==
    LET status_res == get_task_status(api_key, resp)
    IN  IF status_res.ok THEN MeshOnStatus(attempts, status_res.val[1])
        ELSE Iter(attempts, None, None)

\* poll_for_glb_url, one pass of the loop body after the timeout check
MeshIter(api_key, attempts, resp) ==
    LET status_res == get_task_status(api_key, resp)
    IN  IF status_res.ok THEN MeshOnStatus(attempts, status_res.val[1])
        ELSE Iter(attempts + 1, None, None)

\* TimeoutAfter with the check placed before the match: the pass that exhausts the
\* attempts returns without having emitted
TimeoutAfter_DropsEmit(it, text) ==
    IF it.ret = None /\ it.attempts > max_attempts
    THEN Iter(it.attempts, Some(Err(text)), None)
    ELSE it

\* poll_for_rigging_success / poll_for_animation_glb: `if attempts > max_attempts`
\* at the bottom of the loop, applied to an iteration that did not return
TimeoutAfter(it, text) ==
    IF it.ret = None /\ it.attempts > max_attempts
    THEN Iter(it.attempts, Some(Err(text)), it.emit)
    ELSE it

\* RigOnResponse with `.send().await?` in place of the match: a transport error is
\* returned to the caller
RigOnResponse_Propagates(task_id, attempts, resp) ==
    IF resp.t = "transport"
      THEN Iter(attempts, Some(Err(<<"Failed to send request: ", "connection error">>)), None)
    ELSE IF resp.t \in {"http_err", "bad_json"}
      THEN Iter(attempts, Some(Err(<<"Meshy poll error: ", resp.status, " - ", "">>)), None)
    ELSE IF resp.status = "SUCCEEDED" THEN Iter(attempts, Some(Ok(<<>>)), None)
    ELSE IF resp.status \in {"FAILED", "CANCELED"}
      THEN Iter(attempts,
                Some(Err(<<"Rigging task failed or canceled. ID: ", task_id>>)), None)
    ELSE Iter(attempts + 1, None,
              Some(<<"Rigging Model: ", ToString(resp.progress), "%">>))

\* poll_for_rigging_success, the match on send()'s result
RigOnResponse(task_id, attempts, resp) ==
    IF resp.t = "transport" THEN Iter(attempts + 1, None, None)
    ELSE IF resp.t = "http_err"
      THEN Iter(attempts, Some(Err(<<"Meshy poll error: ", resp.status, " - ", "">>)), None)
    ELSE IF resp.t = "bad_json"
      THEN Iter(attempts,
                Some(Err(<<"Failed to parse Rigging task status: ", "decode error">>)), None)
    ELSE IF resp.status = "SUCCEEDED" THEN Iter(attempts, Some(Ok(<<>>)), None)
    ELSE IF resp.status \in {"FAILED", "CANCELED"}
      THEN Iter(attempts,
                Some(Err(<<"Rigging task failed or canceled. ID: ", task_id>>)), None)
    ELSE Iter(attempts + 1, None,
              Some(<<"Rigging Model: ", ToString(resp.progress), "%">>))

\* poll_for_rigging_success, one pass of the loop body
RigIter(task_id, attempts, resp) ==
    TimeoutAfter(RigOnResponse(task_id, attempts, resp),
                 <<"Timeout waiting for Rigging task">>)

\* AnimOnResponse with a SUCCEEDED that lacks its URL waited out like a job that is
\* still running
AnimOnResponse_RetriesMissing(task_id, anim_name, attempts, resp) ==
    IF resp.t = "transport" THEN Iter(attempts + 1, None, None)
    ELSE IF resp.t = "http_err"
      THEN Iter(attempts, Some(Err(<<"Meshy poll error: ", resp.status, " - ", "">>)), None)
    ELSE IF resp.t = "bad_json"
      THEN Iter(attempts,
                Some(Err(<<"Failed to parse Animation task status: ", "decode error">>)), None)
    ELSE IF resp.status = "SUCCEEDED" THEN
        IF resp.urls # None /\ resp.urls[1] # None
        THEN Iter(attempts, Some(Ok(<<resp.urls[1][1]>>)), None)
        ELSE Iter(attempts + 1, None, None)
    ELSE IF resp.status \in {"FAILED", "CANCELED"}
      THEN Iter(attempts,
                Some(Err(<<"Animation task failed or canceled. ID: ", task_id>>)), None)
    ELSE Iter(attempts + 1, None,
              Some(<<"Applying Animation (", anim_name, "): ",
                     ToString(resp.progress), "%">>))

\* poll_for_animation_glb, the match on send()'s result
AnimOnResponse(task_id, anim_name, attempts, resp) ==
    IF resp.t = "transport" THEN Iter(attempts + 1, None, None)
    ELSE IF resp.t = "http_err"
      THEN Iter(attempts, Some(Err(<<"Meshy poll error: ", resp.status, " - ", "">>)), None)
    ELSE IF resp.t = "bad_json"
      THEN Iter(attempts,
                Some(Err(<<"Failed to parse Animation task status: ", "decode error">>)), None)
    ELSE IF resp.status = "SUCCEEDED" THEN
        IF resp.urls # None THEN
            IF resp.urls[1] # None
            THEN Iter(attempts, Some(Ok(<<resp.urls[1][1]>>)), None)
            ELSE Iter(attempts,
                      Some(Err(<<"Task succeeded but animation_glb_url is missing">>)), None)
        ELSE Iter(attempts,
                  Some(Err(<<"Task succeeded but result object is missing">>)), None)
    ELSE IF resp.status \in {"FAILED", "CANCELED"}
      THEN Iter(attempts,
                Some(Err(<<"Animation task failed or canceled. ID: ", task_id>>)), None)
    ELSE Iter(attempts + 1, None,
              Some(<<"Applying Animation (", anim_name, "): ",
                     ToString(resp.progress), "%">>))

\* poll_for_animation_glb, one pass of the loop body
AnimIter(task_id, anim_name, attempts, resp) ==
    TimeoutAfter(AnimOnResponse(task_id, anim_name, attempts, resp),
                 <<"Timeout waiting for Animation task (", anim_name, ")">>)

\* LoopIter with the mesh loop's match used for every job kind
LoopIter_Uniform(k, api_key, task_id, attempts, resp) == MeshIter(api_key, attempts, resp)

\* One pass of job k's loop on response resp.
LoopIter(k, api_key, task_id, attempts, resp) ==
    CASE k = "mesh" -> MeshIter(api_key, attempts, resp)
      [] k = "rig" -> RigIter(task_id, attempts, resp)
      [] OTHER -> AnimIter(task_id, AnimName(k), attempts, resp)

\* The mesh loop reads the credential on every pass (inside get_task_status) and
\* sends nothing without it; the other two read it once, before the loop.
Sends(k, api_key) == k # "mesh" \/ api_key

\* `let api_key = std::env::var(..).map_err(..)?` at the top of the rig and
\* animation poll functions: what calling the function returns before any GET.
PollEntry(k, api_key) ==
    IF k # "mesh" /\ ~api_key THEN Some(Err(<<"MESHY_AI_API_KEY not set in .env">>))
    ELSE None

----------------------------------------------------------------------------
(* Poll loop frames.  poll[k].st is "idle" before the poll function is     *)
(* called, "called" at its first line, "running" inside `loop` and         *)
(* "returned" after; attempts is the local counter, gone with the frame.   *)

Frame(st, attempts) == [st |-> st, attempts |-> attempts]
NoFrame == Frame("idle", 0)

\* hist: the status endpoint as the job's caller saw it (poll harness only).
\*   fetches  GETs sent
\*   last     Option of the latest response
\*   pure     every response before the latest was a transport error
\*   after    GETs sent after a terminal status had been answered
\*   quiet    every response so far was a transport error or PENDING/IN_PROGRESS
\*   emitted  Option of the progress text the pass on the latest response emitted
\*   scen     how many answers of ScenarioA the endpoint has given, in order and
\*            with nothing else answered (-1 once it answered anything else)
\*   notes    the progress texts emitted so far, while scen >= 0
NoHist == [fetches |-> 0, last |-> None, pure |-> TRUE, after |-> 0,
           quiet |-> TRUE, emitted |-> None, scen |-> 0, notes |-> <<>>]

\* Scenario A of the specification: the answers of a mesh job's status endpoint
ScenarioA ==
    << Json("PENDING", 0, None, None),
       Json("IN_PROGRESS", 40, None, None),
       Json("IN_PROGRESS", 90, None, None),
       Json("SUCCEEDED", 100, Some(Some("https://x/y.glb")), None) >>

IsTerminal(resp) == IsStatus(resp, {"SUCCEEDED", "FAILED", "CANCELED"})

Observe(h, resp) ==
    [fetches |-> h.fetches + 1,
     last |-> Some(resp),
     pure |-> h.pure /\ (h.last = None \/ h.last[1].t = "transport"),
     after |-> IF h.last # None /\ IsTerminal(h.last[1]) THEN h.after + 1 ELSE h.after]

\* Observe, with what the loop's pass on resp emitted
Noted(h, resp, emit) ==
    LET o == Observe(h, resp)
        on == h.scen >= 0 /\ h.scen < Len(ScenarioA) /\ resp = ScenarioA[h.scen + 1]
    IN  [fetches |-> o.fetches, last |-> o.last, pure |-> o.pure, after |-> o.after,
         quiet |-> h.quiet /\ (resp.t = "transport" \/ IsStatus(resp, NonTerminalStatuses)),
         emitted |-> emit,
         scen |-> IF on THEN h.scen + 1 ELSE -1,
         notes |-> IF ~on THEN <<>>
                   ELSE IF emit = None THEN h.notes ELSE Append(h.notes, emit[1])]

Event(name, payload) == [name |-> name, payload |-> payload]
Progress(text) == Event("pipeline-progress", text)

\* `let _ = app.emit(name, payload)` for each event of evs in turn; the Result of
\* emit is dropped, so the run goes on the same whether or not the event is delivered
Emit(evs) == sink' = Some(evs[Len(evs)])

EmitOpt(emit) == IF emit = None THEN sink' = sink ELSE Emit(<<Progress(emit[1])>>)

\* the loop is inside `loop { .. }`: it has not returned
Polling(k) == poll[k].st = "running"

\* First line of the poll function for job k.
PollEnter(k) ==
    /\ poll[k].st = "called"
    /\ LET r == PollEntry(k, env.meshy)
       IN  /\ ret' = [ret EXCEPT ![k] = r]
           /\ poll' = [poll EXCEPT ![k] = IF r = None THEN Frame("running", 0)
                                          ELSE Frame("returned", 0)]
    /\ sink' = sink

\* poll_for_glb_url: `if attempts > max_attempts { return Err(..) }`
PollTimeout(k) ==
    /\ k = "mesh"
    /\ Polling(k)
    /\ MeshTimedOut(poll[k].attempts)
    /\ ret' = [ret EXCEPT ![k] = Some(Err(<<"Timeout waiting for Meshy AI task">>))]
    /\ poll' = [poll EXCEPT ![k] = Frame("returned", 0)]
    /\ sink' = sink

\* One pass of job k's loop: the GET answered by resp, the match, the emit.
PollFetch(k, resp) ==
    /\ Polling(k)
    /\ k = "mesh" => ~MeshTimedOut(poll[k].attempts)
    /\ LET it == LoopIter(k, env.meshy, ids[k][1], poll[k].attempts, resp)
       IN  /\ ret' = [ret EXCEPT ![k] = it.ret]
           /\ poll' = [poll EXCEPT ![k] = IF it.ret = None
                                          THEN Frame("running", it.attempts)
                                          ELSE Frame("returned", 0)]
           /\ EmitOpt(it.emit)

----------------------------------------------------------------------------
(* Poll harness: one call of one poll function, as test_meshy_generate     *)
(* makes for the mesh job, with the status endpoint answering freely.      *)

NoIds == [k \in Jobs |-> None]
JobIds(k) == CASE k = "mesh" -> MeshIds [] k = "rig" -> RigIds [] OTHER -> AnimIds(k)

InitPoll ==
    /\ pc = "harness"
    /\ env \in [gemini : {TRUE}, meshy : BOOLEAN]
    /\ input_ok = TRUE
    /\ stats = None
    /\ gen_image = None
    /\ \E k \in Jobs : \E id \in JobIds(k) :
          /\ ids = [NoIds EXCEPT ![k] = Some(id)]
          /\ poll = [j \in Jobs |-> IF j = k THEN Frame("called", 0) ELSE NoFrame]
    /\ submits = <<>>
    /\ ret = [k \in Jobs |-> None]
    /\ files = <<>>
    /\ robots = <<>>
    /\ result = None
    /\ sink = None
    /\ hist = NoHist
    /\ log = <<>>
    /\ reply = None
    /\ runs = <<>>
    /\ db_lock = "free"

HarnessFrame == UNCHANGED <<pc, env, input_ok, stats, gen_image, ids, submits,
                            files, robots, result, log, reply, runs, db_lock>>

HarnessEnter ==
    /\ pc = "harness"
    /\ \E k \in Jobs : PollEnter(k)
    /\ UNCHANGED hist
    /\ HarnessFrame

HarnessTimeout ==
    /\ pc = "harness"
    /\ \E k \in Jobs : PollTimeout(k)
    /\ UNCHANGED hist
    /\ HarnessFrame

\* the answers of Responses(k) and the 90% of ScenarioA
HarnessResponses(k) == Responses(k) \cup {Json("IN_PROGRESS", 90, None, None)}

HarnessFetch ==
    /\ pc = "harness"
    /\ \E k \in Jobs : \E resp \in HarnessResponses(k) :
          /\ PollFetch(k, resp)
          /\ hist' = IF Sends(k, env.meshy)
                     THEN Noted(hist, resp,
                                LoopIter(k, env.meshy, ids[k][1], poll[k].attempts, resp).emit)
                     ELSE hist
    /\ HarnessFrame

NextPoll == HarnessEnter \/ HarnessTimeout \/ HarnessFetch

SpecPoll == InitPoll /\ [][NextPoll]_vars

\* The runtime keeps driving the awaited poll future: a sleep elapses and a GET is
\* answered one way or another, so an enabled step of the loop is taken.
SpecPollLive == SpecPoll /\ WF_vars(NextPoll)

\* the job the harness polls
HJob == CHOOSE k \in Jobs : poll[k].st # "idle"

----------------------------------------------------------------------------
(* gemini.rs and the submit calls of meshy.rs, as functions of the         *)
(* credential and of how the remote call went: out.t is "transport" (send  *)
(* failed), "http_err" (non-2xx), "bad_json" (undecodable body) or "ok".   *)

CallOutcomes == {"transport", "http_err", "bad_json", "ok"}

\* the RobotStatus a successful stats call yields
TheStats == [name |-> "Robo", lore |-> "lore", hp |-> 1000, atk |-> 50, def |-> 20,
             visual_description |-> "a robot"]

generate_robot_status(api_key, t) ==
    IF ~api_key THEN Err(<<"GEMINI_API_KEY not found in environment variables">>)
    ELSE IF t = "transport" THEN Err(<<"Failed to send request: ", "connection error">>)
    ELSE IF t = "http_err" THEN Err(<<"Gemini API Error: ", "503">>)
    ELSE IF t = "bad_json" THEN Err(<<"Failed to parse response JSON: ", "decode error">>)
    ELSE Ok(<<TheStats>>)

\* b64_ok: whether the returned inlineData decodes as base64
generate_robot_image(api_key, t, b64_ok) ==
    IF ~api_key THEN Err(<<"GEMINI_API_KEY not found">>)
    ELSE IF t = "transport" THEN Err(<<"Failed to send request: ", "connection error">>)
    ELSE IF t = "http_err" THEN Err(<<"NanoBanana API Error: ", "503">>)
    ELSE IF t = "bad_json"
      THEN Err(<<"Failed to parse NanoBanana response JSON: ", "decode error">>)
    ELSE Ok(<<[b64_ok |-> b64_ok]>>)

create_image_to_3d_task(api_key, t, id) ==
    IF ~api_key THEN Err(<<"MESHY_AI_API_KEY not found">>)
    ELSE IF t = "transport"
      THEN Err(<<"Failed to send Meshy request: ", "connection error">>)
    ELSE IF t = "http_err" THEN Err(<<"Meshy API Error: ", "503">>)
    ELSE IF t = "bad_json"
      THEN Err(<<"Failed to parse Meshy response: ", "decode error">>)
    ELSE Ok(<<id>>)

create_rigging_task(api_key, t, id) ==
    IF ~api_key THEN Err(<<"MESHY_AI_API_KEY not set in .env">>)
    ELSE IF t = "transport"
      THEN Err(<<"Failed to send request to Meshy Rigging API: ", "connection error">>)
    ELSE IF t = "http_err" THEN Err(<<"Meshy Rigging API error: ", "503", " - ", "">>)
    ELSE IF t = "bad_json"
      THEN Err(<<"Failed to parse Meshy Rigging API response: ", "decode error">>)
    ELSE Ok(<<id>>)

create_animation_task(api_key, t, id) ==
    IF ~api_key THEN Err(<<"MESHY_AI_API_KEY not set in .env">>)
    ELSE IF t = "transport"
      THEN Err(<<"Failed to send request to Meshy Animation API: ", "connection error">>)
    ELSE IF t = "http_err" THEN Err(<<"Meshy Animation API error: ", "503", " - ", "">>)
    ELSE IF t = "bad_json"
      THEN Err(<<"Failed to parse Meshy Animation API response: ", "decode error">>)
    ELSE Ok(<<id>>)

\* the creation request as the service receives it
Request(kind, input, action_id) == [kind |-> kind, input |-> input, action_id |-> action_id]

\* Sent with one retry built into the submit call
Sent_Twice(api_key, req) ==
    IF api_key THEN Append(Append(submits, req), req) ELSE submits

\* a submit call sends its request unless the credential is missing
Sent(api_key, req) == IF api_key THEN Append(submits, req) ELSE submits

----------------------------------------------------------------------------
(* Files of the app data dir and the robots table. *)

\* FileName with a fixed stem in place of the job id
FileName_Fixed(task_id, suffix) == "robot" \o suffix

\* format!("{}_original.png", task_id) and its three siblings: the id, then the suffix
FileName(task_id, suffix) == task_id \o suffix
Path(filename) == <<"app_data_dir/", filename>>
Written(name, content) ==
    [n \in DOMAIN files \cup {name} |-> IF n = name THEN content ELSE files[n]]
Exists(name) == name \in DOMAIN files

DownloadOutcomes == {"transport", "http_err", "fs_err", "ok"}

\* download_glb: GET url, then create the file and write the bytes
download_glb(t, url, filename) ==
    IF t = "transport" THEN Err(<<"Failed to request GLB: ", "connection error">>)
    ELSE IF t = "http_err" THEN Err(<<"Failed to download GLB: ", "503">>)
    ELSE IF t = "fs_err" THEN Err(<<"Failed to create file: ", "io error">>)
    ELSE Ok(<<Path(filename)>>)

\* db::insert_robot with the row written although execute() reported an error
insert_robot_KeepsRowOnError(table, robot, db_ok) ==
    [table |-> Append(table, robot),
     res |-> IF db_ok THEN Ok(<<>>) ELSE Err(<<"sqlite error">>)]

\* db::insert_robot: one INSERT; on an error no row is added
insert_robot(table, robot, db_ok) ==
    IF db_ok THEN [table |-> Append(table, robot), res |-> Ok(<<>>)]
    ELSE [table |-> table, res |-> Err(<<"sqlite error">>)]

\* db::RobotRecord { .. } with model_path and attack_model_path exchanged
new_robot_Swapped(st, original_image_path, image_path, idle_path, attack_path) ==
    [id |-> "uuid", name |-> st.name, lore |-> st.lore, hp |-> st.hp, atk |-> st.atk,
     def |-> st.def, original_image_path |-> original_image_path,
     image_path |-> image_path, model_path |-> attack_path,
     attack_model_path |-> idle_path]

\* db::RobotRecord { .. } assembled by run_generation_pipeline (the two clock
\* readings created_at and generation_time_ms are left out)
new_robot(st, original_image_path, image_path, idle_path, attack_path) ==
    [id |-> "uuid", name |-> st.name, lore |-> st.lore, hp |-> st.hp, atk |-> st.atk,
     def |-> st.def, original_image_path |-> original_image_path,
     image_path |-> image_path, model_path |-> idle_path,
     attack_model_path |-> attack_path]

----------------------------------------------------------------------------
(* lib.rs: run_generation_pipeline.  pc names the call the run is at;      *)
(* every action is the stretch of the function from one await to the next. *)

\* rows earlier runs left in the table
MaxStored == 1
StoredRobot(i) ==
    [id |-> "stored-" \o ToString(i), name |-> "Old", lore |-> "lore", hp |-> 500,
     atk |-> 10, def |-> 5, original_image_path |-> <<"app_data_dir/", "old_original.png">>,
     image_path |-> <<"app_data_dir/", "old_gen.png">>,
     model_path |-> <<"app_data_dir/", "old_idle.glb">>,
     attack_model_path |-> <<"app_data_dir/", "old_attack.glb">>]
Stored(n) == [i \in 1..n |-> StoredRobot(i)]

Init ==
    /\ pc = "stats"
    /\ env \in [gemini : BOOLEAN, meshy : BOOLEAN]
    /\ input_ok \in BOOLEAN
    /\ stats = None
    /\ gen_image = None
    /\ ids = NoIds
    /\ submits = <<>>
    /\ poll = [k \in Jobs |-> NoFrame]
    /\ ret = [k \in Jobs |-> None]
    /\ files = <<>>
    /\ robots \in {Stored(n) : n \in 0..MaxStored}
    /\ result = None
    /\ sink = None
    /\ hist = NoHist
    /\ log = <<>>
    /\ reply = None
    /\ runs = <<>>
    /\ db_lock = "free"

\* a "pipeline-progress" notification of the run, and a stage call it started
Emitted(text) == [kind |-> "emit", what |-> text]
Started(op) == [kind |-> "start", what |-> op]

\* StageLog with the emit after the call
StageLog_Late(text, op) == <<Started(op), Emitted(text)>>

\* lines 53-54, 59-60, 61-62, 94-95, 99-100: `let _ = app.emit("pipeline-progress",
\* text)` and then the stage's first call
StageLog(text, op) == <<Emitted(text), Started(op)>>

\* the `?` operator with the error kept and the run going on
Return_Continues(r) == result' = Some(r) /\ pc' = pc

\* `return Err(e)` / the `?` operator: the command ends with r
Return(r) == result' = Some(r) /\ pc' = "done"

\* lines 53-57
GenerateRobotStatus ==
    /\ pc = "stats"
    /\ \E t \in CallOutcomes :
        LET r == generate_robot_status(env.gemini, t)
        IN  IF r.ok
            THEN /\ stats' = Some(r.val[1])
                 /\ Emit(<<Progress(<<"Analyzing food and generating stats...">>),
                           Event("pipeline-stats", <<"stats">>)>>)
                 /\ pc' = "image"
                 /\ result' = result
            ELSE /\ Emit(<<Progress(<<"Analyzing food and generating stats...">>)>>)
                 /\ Return(r)
                 /\ stats' = stats
    /\ log' = log \o StageLog(<<"Analyzing food and generating stats...">>,
                               <<"generate_robot_status">>)
    /\ UNCHANGED <<env, input_ok, gen_image, ids, submits, poll, ret, files, robots,
                   hist, reply, runs, db_lock>>

\* lines 59-60
GenerateRobotImage ==
    /\ pc = "image"
    /\ Emit(<<Progress(<<"Generating robot concept image...">>)>>)
    /\ \E t \in CallOutcomes : \E b \in BOOLEAN :
        LET r == generate_robot_image(env.gemini, t, b)
        IN  IF r.ok
            THEN gen_image' = Some(r.val[1]) /\ pc' = "create_mesh" /\ result' = result
            ELSE Return(r) /\ gen_image' = gen_image
    /\ log' = log \o StageLog(<<"Generating robot concept image...">>,
                               <<"generate_robot_image">>)
    /\ UNCHANGED <<env, input_ok, stats, ids, submits, poll, ret, files, robots, hist,
                   reply, runs, db_lock>>

\* lines 61-62
CreateImageTo3dTask ==
    /\ pc = "create_mesh"
    /\ Emit(<<Progress(<<"Submitting 3D Generation Task to Meshy...">>)>>)
    /\ submits' = Sent(env.meshy, Request("image-to-3d", gen_image[1], 0))
    /\ \E t \in CallOutcomes : \E id \in MeshIds :
        LET r == create_image_to_3d_task(env.meshy, t, id)
        IN  IF r.ok
            THEN /\ ids' = [ids EXCEPT !["mesh"] = Some(r.val[1])]
                 /\ poll' = [poll EXCEPT !["mesh"] = Frame("called", 0)]
                 /\ pc' = "poll_mesh"
                 /\ result' = result
            ELSE Return(r) /\ UNCHANGED <<ids, poll>>
    /\ log' = log \o StageLog(<<"Submitting 3D Generation Task to Meshy...">>,
                               <<"create_image_to_3d_task">>)
    /\ UNCHANGED <<env, input_ok, stats, gen_image, ret, files, robots, hist, reply, runs, db_lock>>

\* the poll loops the run is awaiting at pc
Awaited ==
    CASE pc = "poll_mesh" -> {"mesh"}
      [] pc = "poll_rig" -> {"rig"}
      [] pc = "join" -> AnimJobs
      [] OTHER -> {}

PipeFrame == UNCHANGED <<pc, env, input_ok, stats, gen_image, ids, submits, files,
                         robots, result, hist, log, reply, runs, db_lock>>

\* lines 65, 96, 104-105: the awaited poll functions run
PollForEnter == (\E k \in Awaited : PollEnter(k)) /\ PipeFrame
PollForTimeout == (\E k \in Awaited : PollTimeout(k)) /\ PipeFrame
PollForStatus == (\E k \in Awaited : \E resp \in Responses(k) : PollFetch(k, resp)) /\ PipeFrame

\* line 65: `meshy::poll_for_glb_url(&app, task_id.clone()).await?`
AwaitPollForGlbUrl ==
    /\ pc = "poll_mesh"
    /\ poll["mesh"].st = "returned"
    /\ IF ret["mesh"][1].ok THEN pc' = "write_original" /\ result' = result
       ELSE Return(ret["mesh"][1])
    /\ UNCHANGED <<env, input_ok, stats, gen_image, ids, submits, poll, ret, files,
                   robots, sink, hist, log, reply, runs, db_lock>>

\* lines 68-77: decode the input image and write <task_id>_original.png
WriteOriginalImage ==
    /\ pc = "write_original"
    /\ IF ~input_ok
       THEN Return(Err(<<"Base64 Error (Orig): ", "decode error">>)) /\ files' = files
       ELSE \E fs_ok \in BOOLEAN :
              IF fs_ok
              THEN /\ files' = Written(FileName(ids["mesh"][1], "_original.png"),
                                       <<"input image">>)
                   /\ pc' = "write_gen"
                   /\ result' = result
              ELSE Return(Err(<<"io error">>)) /\ files' = files
    /\ UNCHANGED <<env, input_ok, stats, gen_image, ids, submits, poll, ret, robots,
                   sink, hist, log, reply, runs, db_lock>>

\* lines 79-91: decode the concept image, write <task_id>_gen.png, emit pipeline-images
WriteGeneratedImage ==
    /\ pc = "write_gen"
    /\ IF ~gen_image[1].b64_ok
       THEN /\ Return(Err(<<"Base64 Error (Gen): ", "decode error">>))
            /\ UNCHANGED <<files, sink>>
       ELSE \E fs_ok \in BOOLEAN :
              IF fs_ok
              THEN /\ files' = Written(FileName(ids["mesh"][1], "_gen.png"),
                                       <<"concept image">>)
                   /\ Emit(<<Event("pipeline-images", <<"paths">>)>>)
                   /\ pc' = "create_rig"
                   /\ result' = result
              ELSE Return(Err(<<"io error">>)) /\ UNCHANGED <<files, sink>>
    /\ UNCHANGED <<env, input_ok, stats, gen_image, ids, submits, poll, ret, robots,
                   hist, log, reply, runs, db_lock>>

\* line 95: the argument of create_rigging_task
RigInput == ids["mesh"][1]

\* lines 94-95
CreateRiggingTask ==
    /\ pc = "create_rig"
    /\ Emit(<<Progress(<<"Creating Rigging task...">>)>>)
    /\ submits' = Sent(env.meshy, Request("rigging", RigInput, 0))
    /\ \E t \in CallOutcomes : \E id \in RigIds :
        LET r == create_rigging_task(env.meshy, t, id)
        IN  IF r.ok
            THEN /\ ids' = [ids EXCEPT !["rig"] = Some(r.val[1])]
                 /\ poll' = [poll EXCEPT !["rig"] = Frame("called", 0)]
                 /\ pc' = "poll_rig"
                 /\ result' = result
            ELSE Return(r) /\ UNCHANGED <<ids, poll>>
    /\ log' = log \o StageLog(<<"Creating Rigging task...">>, <<"create_rigging_task">>)
    /\ UNCHANGED <<env, input_ok, stats, gen_image, ret, files, robots, hist, reply, runs, db_lock>>

\* line 96: `meshy::poll_for_rigging_success(&app, rig_task_id.clone()).await?`
AwaitPollForRiggingSuccess ==
    /\ pc = "poll_rig"
    /\ poll["rig"].st = "returned"
    /\ IF ret["rig"][1].ok THEN pc' = "create_idle" /\ result' = result
       ELSE Return(ret["rig"][1])
    /\ UNCHANGED <<env, input_ok, stats, gen_image, ids, submits, poll, ret, files,
                   robots, sink, hist, log, reply, runs, db_lock>>

\* lines 100-101 with task_id passed where rig_task_id belongs
AnimInput_MeshId == ids["mesh"][1]

\* lines 100-101: the first argument of create_animation_task
AnimInput == ids["rig"][1]

\* line 100 (k = "idle", after the emit of line 99) and line 101 (k = "attack")
CreateAnimationTask(k) ==
    /\ pc = (IF k = "idle" THEN "create_idle" ELSE "create_attack")
    /\ IF k = "idle"
       THEN Emit(<<Progress(<<"Creating Animation tasks (Idle and Attack)...">>)>>)
       ELSE sink' = sink
    /\ submits' = Sent(env.meshy, Request("animations", AnimInput, ActionId(k)))
    /\ \E t \in CallOutcomes : \E id \in AnimIds(k) :
        LET r == create_animation_task(env.meshy, t, id)
        IN  IF r.ok
            THEN /\ ids' = [ids EXCEPT ![k] = Some(r.val[1])]
                 /\ IF k = "idle"
                    THEN pc' = "create_attack" /\ poll' = poll
                    ELSE /\ pc' = "join"
                         /\ poll' = [j \in Jobs |-> IF j \in AnimJobs
                                                   THEN Frame("called", 0) ELSE poll[j]]
                 /\ result' = result
            ELSE Return(r) /\ UNCHANGED <<ids, poll>>
    /\ log' = log \o (IF k = "idle"
                       THEN StageLog(<<"Creating Animation tasks (Idle and Attack)...">>,
                                     <<"create_animation_task", "Idle">>)
                       ELSE <<Started(<<"create_animation_task", "Attack">>)>>)
    /\ UNCHANGED <<env, input_ok, stats, gen_image, ret, files, robots, hist, reply, runs, db_lock>>

CreateIdleAnimationTask == CreateAnimationTask("idle")
CreateAttackAnimationTask == CreateAnimationTask("attack")

\* try_join! in place of join!: the first error completes the await
JoinReady_TryJoin ==
    \/ \A k \in AnimJobs : poll[k].st = "returned"
    \/ \E k \in AnimJobs : ret[k] # None /\ ~ret[k][1].ok

\* lines 103-106: tokio::join! completes when both poll futures have completed
JoinReady == \A k \in AnimJobs : poll[k].st = "returned"

\* lines 108-109 with `attack_url_res.unwrap_or(idle_url.clone())`
JoinOutcome_KeepsIdle(idle_url_res, attack_url_res) ==
    IF idle_url_res # None /\ ~idle_url_res[1].ok THEN idle_url_res[1]
    ELSE IF attack_url_res # None /\ ~attack_url_res[1].ok
      THEN Ok(<<idle_url_res[1].val[1], idle_url_res[1].val[1]>>)
    ELSE Ok(<<idle_url_res[1].val[1], attack_url_res[1].val[1]>>)

\* lines 108-109 with `attack_url_res?` before `idle_url_res?`
JoinOutcome_AttackFirst(idle_url_res, attack_url_res) ==
    IF attack_url_res # None /\ ~attack_url_res[1].ok THEN attack_url_res[1]
    ELSE IF idle_url_res # None /\ ~idle_url_res[1].ok THEN idle_url_res[1]
    ELSE Ok(<<idle_url_res[1].val[1], attack_url_res[1].val[1]>>)

\* lines 108-109: `idle_url_res?` then `attack_url_res?`
JoinOutcome(idle_url_res, attack_url_res) ==
    IF idle_url_res # None /\ ~idle_url_res[1].ok THEN idle_url_res[1]
    ELSE IF attack_url_res # None /\ ~attack_url_res[1].ok THEN attack_url_res[1]
    ELSE Ok(<<idle_url_res[1].val[1], attack_url_res[1].val[1]>>)

\* lines 103-109
Join ==
    /\ pc = "join"
    /\ JoinReady
    /\ LET r == JoinOutcome(ret["idle"], ret["attack"])
       IN  IF r.ok THEN pc' = "download_idle" /\ result' = result
           ELSE Return(r)
    /\ UNCHANGED <<env, input_ok, stats, gen_image, ids, submits, poll, ret, files,
                   robots, sink, hist, log, reply, runs, db_lock>>

\* the URLs bound by lines 108-109
Urls == JoinOutcome(ret["idle"], ret["attack"]).val
idle_url == Urls[1]
attack_url == Urls[2]

GlbSuffix(k) == IF k = "idle" THEN "_idle.glb" ELSE "_attack.glb"

\* line 115 (k = "idle") and line 116 (k = "attack")
DownloadGlb(k) ==
    /\ pc = (IF k = "idle" THEN "download_idle" ELSE "download_attack")
    /\ \E t \in DownloadOutcomes :
        LET filename == FileName(ids["mesh"][1], GlbSuffix(k))
            url == IF k = "idle" THEN idle_url ELSE attack_url
            r == download_glb(t, url, filename)
        IN  IF r.ok
            THEN /\ files' = Written(filename, <<"bytes of ", url>>)
                 /\ pc' = (IF k = "idle" THEN "download_attack" ELSE "insert")
                 /\ result' = result
            ELSE Return(r) /\ files' = files
    /\ log' = log \o <<Started(<<"download_glb", GlbSuffix(k)>>)>>
    /\ UNCHANGED <<env, input_ok, stats, gen_image, ids, submits, poll, ret, robots,
                   sink, hist, reply, runs, db_lock>>

DownloadIdleGlb == DownloadGlb("idle")
DownloadAttackGlb == DownloadGlb("attack")

\* the guard of line 136 kept alive past the return
Released_Held == "run"

\* the MutexGuard `conn` goes out of scope when the function returns
Released == "free"

\* lines 118-136: assemble the record, then `state.lock()`: the caller waits while the
\* Mutex is held elsewhere; a poisoned Mutex is returned as the error
LockConnection ==
    /\ pc = "insert"
    /\ db_lock = "free"
    /\ \E lock_ok \in BOOLEAN :
          IF lock_ok THEN db_lock' = "run" /\ pc' = "insert_locked" /\ result' = result
          ELSE Return(Err(<<"poisoned lock">>)) /\ db_lock' = db_lock
    /\ log' = log \o <<Started(<<"RobotRecord">>)>>
    /\ UNCHANGED <<env, input_ok, stats, gen_image, ids, submits, poll, ret, files,
                   robots, sink, hist, reply, runs>>

\* lines 137-139: insert under the lock, return the record; the guard is dropped
InsertRobot ==
    /\ pc = "insert_locked"
    /\ \E db_ok \in BOOLEAN :
        LET task_id == ids["mesh"][1]
            robot == new_robot(stats[1],
                               Path(FileName(task_id, "_original.png")),
                               Path(FileName(task_id, "_gen.png")),
                               Path(FileName(task_id, "_idle.glb")),
                               Path(FileName(task_id, "_attack.glb")))
            ins == insert_robot(robots, robot, db_ok)
        IN  /\ robots' = ins.table
            /\ Return(IF ins.res.ok THEN Ok(<<robot>>) ELSE ins.res)
    /\ db_lock' = Released
    /\ UNCHANGED <<env, input_ok, stats, gen_image, ids, submits, poll, ret, files,
                   sink, hist, log, reply, runs>>

Next ==
    \/ GenerateRobotStatus
    \/ GenerateRobotImage
    \/ CreateImageTo3dTask
    \/ PollForEnter
    \/ PollForTimeout
    \/ PollForStatus
    \/ AwaitPollForGlbUrl
    \/ WriteOriginalImage
    \/ WriteGeneratedImage
    \/ CreateRiggingTask
    \/ AwaitPollForRiggingSuccess
    \/ CreateIdleAnimationTask
    \/ CreateAttackAnimationTask
    \/ Join
    \/ DownloadIdleGlb
    \/ DownloadAttackGlb
    \/ LockConnection
    \/ InsertRobot

Spec == Init /\ [][Next]_vars

----------------------------------------------------------------------------
(* Vocabulary of the claims about the poll loops (checked under SpecPoll). *)

TimeoutText(k) ==
    CASE k = "mesh" -> <<"Timeout waiting for Meshy AI task">>
      [] k = "rig" -> <<"Timeout waiting for Rigging task">>
      [] OTHER -> <<"Timeout waiting for Animation task (", AnimName(k), ")">>

IsTimeout(k) == ret[k] = Some(Err(TimeoutText(k)))

\* the text has s as one of its parts
Mentions(text, s) == \E i \in DOMAIN text : text[i] = s

\* the value a well-formed SUCCEEDED carries for job k
Payload(k) == IF k = "rig" THEN <<>> ELSE <<UrlOf(k)>>

Last == hist.last[1]
Answered == hist.last # None
\* every response so far, the latest included, was a transport error
AllTransport == Answered /\ hist.pure /\ Last.t = "transport"

\* C1: in every poll loop a terminal status ends the polling: the loop has returned
\* when the latest response is SUCCEEDED, FAILED or CANCELED, no GET is sent after
\* such a response, and a well-formed SUCCEEDED is returned as Ok of its payload.
C1_TerminalStopsPolling ==
    /\ hist.after = 0
    /\ (Answered /\ IsTerminal(Last)) =>
          (poll[HJob].st = "returned" /\ ret[HJob] # None)
    /\ (Answered /\ WellFormedSuccess(HJob, Last)) => ret[HJob] = Some(Ok(Payload(HJob)))

C1_Witness ==
    /\ Answered /\ WellFormedSuccess(HJob, Last)
    /\ hist.fetches > 2
    /\ ret[HJob] = Some(Ok(Payload(HJob)))

\* C2: when every status fetch ended in a transport error, the loop's Timeout comes
\* after exactly max_attempts GETs.
C2_TimeoutAfterMaxAttemptsFetches ==
    (IsTimeout(HJob) /\ AllTransport) => hist.fetches = max_attempts

\* C3: transport errors are retried and never returned: after N < max_attempts of
\* them the loop is still polling, and a terminal status that follows them decides
\* the return value (Ok of the payload, or an error that is neither the Timeout nor
\* the transport error).
C3_RetriesAreTransparent ==
    /\ (AllTransport /\ hist.fetches < max_attempts) =>
          (Polling(HJob) /\ ret[HJob] = None)
    /\ (Answered /\ hist.pure /\ hist.fetches <= max_attempts /\ IsTerminal(Last)) =>
          /\ ret[HJob] # None
          /\ IF WellFormedSuccess(HJob, Last)
             THEN ret[HJob] = Some(Ok(Payload(HJob)))
             ELSE /\ ~ret[HJob][1].ok
                  /\ ~IsTimeout(HJob)
                  /\ ~Mentions(ret[HJob][1].val, "connection error")

C3_Witness ==
    /\ Answered /\ hist.pure /\ IsTerminal(Last)
    /\ hist.fetches = max_attempts
    /\ HJob = "rig"
    /\ ret[HJob] = Some(Ok(<<>>))

\* C4: in each of the three loops a non-2xx answer to the status GET is retried: the
\* loop does not return on it while attempts remain.
C4_HttpErrorIsRetried ==
    (Answered /\ Last.t = "http_err" /\ hist.fetches <= max_attempts) =>
        (Polling(HJob) /\ ret[HJob] = None /\ poll[HJob].attempts >= 1)

\* C5: a FAILED or CANCELED status makes the loop return an error at once, and the
\* error text carries the service's task_error message when there is one.
C5_FailureCarriesRemoteMessage ==
    (Answered /\ IsStatus(Last, FailureStatuses)) =>
        /\ ret[HJob] # None
        /\ ~ret[HJob][1].ok
        /\ Last.task_error # None => Mentions(ret[HJob][1].val, Last.task_error[1])

----------------------------------------------------------------------------
(* Vocabulary of the claims about run_generation_pipeline (checked under   *)
(* Spec).                                                                  *)

\* the rows this run has inserted
Inserted == SelectSeq(robots, LAMBDA r : r.id = "uuid")

Succeeded(k) == ret[k] # None /\ ret[k][1].ok
Failed(k) == ret[k] # None /\ ~ret[k][1].ok
RunFailed == result # None /\ ~result[1].ok
RunSucceeded == result # None /\ result[1].ok

TaskFile(suffix) == FileName(ids["mesh"][1], suffix)
HasFile(suffix) == ids["mesh"] # None /\ Exists(TaskFile(suffix))
Sibling(k) == IF k = "idle" THEN "attack" ELSE "idle"

\* C6: a run inserts at most one row, only after the stats, the concept image, the
\* mesh, rig and both animation polls and both downloads succeeded; a run that
\* returns an error has inserted none.
C6_InsertOnceAfterAllStages ==
    /\ Len(Inserted) <= 1
    /\ Len(Inserted) = 1 =>
          /\ stats # None /\ gen_image # None
          /\ \A k \in Jobs : Succeeded(k)
          /\ HasFile("_idle.glb") /\ HasFile("_attack.glb")
          /\ RunSucceeded
    /\ RunFailed => Len(Inserted) = 0

C6_Witness == RunSucceeded /\ Len(Inserted) = 1 /\ Len(robots) = MaxStored + 1

\* C7: the stages run in order.  The creation requests reach Meshy as mesh, rig,
\* idle animation, attack animation, each after the stage before it succeeded; the
\* rig request carries the mesh job's id and both animation requests the rig job's
\* id; the downloads follow both animation polls and the insert follows the downloads.
C7_StagesInOrder ==
    /\ gen_image # None => stats # None
    /\ Len(submits) <= 4
    /\ Len(submits) >= 1 => submits[1] = Request("image-to-3d", gen_image[1], 0)
    /\ Len(submits) >= 2 =>
          /\ Succeeded("mesh")
          /\ submits[2] = Request("rigging", ids["mesh"][1], 0)
    /\ Len(submits) >= 3 =>
          /\ Succeeded("rig")
          /\ submits[3] = Request("animations", ids["rig"][1], 0)
    /\ Len(submits) >= 4 =>
          /\ ids["idle"] # None
          /\ submits[4] = Request("animations", ids["rig"][1], 92)
    /\ \A k \in Jobs : poll[k].st # "idle" => ids[k] # None
    /\ \A k \in AnimJobs : poll[k].st # "idle" => Len(submits) = 4
    /\ HasFile("_idle.glb") => \A k \in AnimJobs : Succeeded(k)
    /\ HasFile("_attack.glb") => HasFile("_idle.glb")
    /\ Len(Inserted) > 0 => HasFile("_attack.glb")

C7_Witness == pc = "insert" /\ Len(submits) = 4 /\ HasFile("_attack.glb")

\* C8: the downloads start only after both animation poll loops returned, whichever
\* returned first, and the record of a successful run has the idle animation's file
\* as model_path and the attack animation's file as attack_model_path.
C8_BothAnimationsBeforeDownload ==
    /\ (pc \in {"download_idle", "download_attack", "insert", "insert_locked"}
          \/ HasFile("_idle.glb")) =>
          \A k \in AnimJobs : poll[k].st = "returned" /\ Succeeded(k)
    /\ RunSucceeded =>
          LET rec == result[1].val[1]
          IN  /\ rec.model_path = Path(TaskFile("_idle.glb"))
              /\ files[TaskFile("_idle.glb")] = <<"bytes of ", UrlOf("idle")>>
              /\ rec.attack_model_path = Path(TaskFile("_attack.glb"))
              /\ files[TaskFile("_attack.glb")] = <<"bytes of ", UrlOf("attack")>>

\* idle is back with its URL while attack, four answers in, is still polling
C8_Witness ==
    /\ pc = "join" /\ result = None
    /\ ret["idle"] = Some(Ok(<<UrlOf("idle")>>))
    /\ Polling("attack") /\ poll["attack"].attempts = 4

\* C9: once an animation poll loop has returned an error the run can only fail: it
\* downloads no animated mesh and inserts no row, and it ends with an error.
C9_AnimationErrorFailsRun ==
    (\E k \in AnimJobs : Failed(k)) =>
        /\ pc \in {"join", "done"}
        /\ pc = "done" => RunFailed
        /\ ~HasFile("_idle.glb") /\ ~HasFile("_attack.glb")
        /\ Len(Inserted) = 0

C9_Witness ==
    /\ pc = "done"
    /\ Succeeded("idle") /\ Failed("attack")
    /\ result = Some(ret["attack"][1])

\* C10: a failed animation poll loop does not stop its sibling: while the sibling has
\* not returned the run is still at the join with no result, the sibling's next
\* status GET is enabled, and the run ends only with both loops returned.
C10_NoCrossCancellation ==
    \A k \in AnimJobs :
        /\ (Failed(k) /\ poll[Sibling(k)].st # "returned") =>
              /\ pc = "join" /\ result = None
              /\ ENABLED (/\ \/ PollEnter(Sibling(k))
                             \/ \E resp \in Responses(Sibling(k)) :
                                   PollFetch(Sibling(k), resp)
                          /\ PipeFrame)
        /\ (Failed(k) /\ pc = "done") => poll[Sibling(k)].st = "returned"

C10_Witness ==
    /\ pc = "join"
    /\ Failed("attack")
    /\ Polling("idle") /\ poll["idle"].attempts = max_attempts

----------------------------------------------------------------------------
(* Further claims about the poll loops (checked under SpecPoll).           *)

\* the texts a poll loop returns for a SUCCEEDED without its result
MissingResultTexts ==
    { <<"Task succeeded but no GLB URL found in response">>,
      <<"Task succeeded but animation_glb_url is missing">>,
      <<"Task succeeded but result object is missing">> }

\* the latest answer is a SUCCEEDED without the URL the job's loop reads from it
MalformedSuccess ==
    /\ Answered
    /\ HJob # "rig"
    /\ IsStatus(Last, {"SUCCEEDED"})
    /\ Last.urls = None \/ Last.urls[1] = None

\* C11: a SUCCEEDED whose payload lacks the result (no GLB URL, no result object or
\* no animation_glb_url) is not retried: on that observation the loop has returned
\* an error naming the missing result, and no GET followed it.
C11_MalformedSuccessNotRetried ==
    MalformedSuccess =>
        /\ poll[HJob].st = "returned"
        /\ ret[HJob] # None
        /\ ~ret[HJob][1].ok
        /\ ret[HJob][1].val \in MissingResultTexts
        /\ hist.after = 0

C11_Witness ==
    /\ MalformedSuccess
    /\ HJob = "attack"
    /\ Last.urls = Some(None)
    /\ hist.fetches = 3
    /\ ret[HJob] = Some(Err(<<"Task succeeded but animation_glb_url is missing">>))

\* C12: a transport error costs one attempt, as a PENDING/IN_PROGRESS observation
\* does.  While every answer was one or the other, the attempts spent equal the
\* GETs sent, and the loop returns only the Timeout, after max_attempts + 1 GETs
\* whatever the mix.
C12_TransientErrorCostsOneAttempt ==
    (Answered /\ hist.quiet) =>
        /\ Polling(HJob) => poll[HJob].attempts = hist.fetches
        /\ ~Polling(HJob) => (IsTimeout(HJob) /\ hist.fetches = max_attempts + 1)

C12_Witness ==
    /\ Answered /\ hist.quiet
    /\ ~hist.pure
    /\ Last.t = "transport"
    /\ IsTimeout(HJob)
    /\ HJob = "mesh"

\* the percentage a progress text carries
Percent(text) == text[Len(text) - 1]
Percents(notes) == [i \in DOMAIN notes |-> Percent(notes[i])]

\* the mesh job's status endpoint has answered all of ScenarioA, and nothing else
ScenarioADone == HJob = "mesh" /\ hist.scen = Len(ScenarioA)

C14_OneNotificationPerObservation ==
    /\ Answered =>
          IF IsStatus(Last, NonTerminalStatuses)
          THEN /\ hist.emitted # None
               /\ Percent(hist.emitted[1]) = ToString(Last.progress)
               /\ sink = Some(Progress(hist.emitted[1]))
          ELSE (Last.t = "transport" \/ IsTerminal(Last)) => hist.emitted = None
    /\ hist.scen >= 0 =>
          Percents(hist.notes) =
              SubSeq(<<"0", "40", "90">>, 1, IF hist.scen < 3 THEN hist.scen ELSE 3)

C14_Witness ==
    /\ HJob = "idle"
    /\ poll[HJob].st = "returned"
    /\ IsTimeout(HJob)
    /\ IsStatus(Last, {"IN_PROGRESS"})
    /\ hist.emitted = Some(<<"Applying Animation (", "Idle", "): ", "40", "%">>)

\* C17: a missing MESHY_AI_API_KEY is fatal and never retried: without the key no
\* poll loop spends an attempt or runs into the Timeout.
C17_MissingKeyNotRetried ==
    ~env.meshy =>
        /\ poll[HJob].attempts = 0
        /\ ~IsTimeout(HJob)

----------------------------------------------------------------------------
(* Further claims about run_generation_pipeline (checked under Spec).      *)

\* the stage a logged call belongs to
Stage(op) ==
    CASE op[1] = "generate_robot_status" -> "stat generation"
      [] op[1] = "generate_robot_image" -> "concept image"
      [] op[1] = "create_image_to_3d_task" -> "mesh"
      [] op[1] = "create_rigging_task" -> "rigging"
      [] op[1] = "create_animation_task" -> "animation"
      [] op[1] = "download_glb" -> "asset download"
      [] OTHER -> "record assembly"

\* log[i] is the first call of its stage
StartsStage(i) ==
    /\ log[i].kind = "start"
    /\ \A j \in 1..(i - 1) :
          log[j].kind = "start" => Stage(log[j].what) # Stage(log[i].what)

\* the stages whose first call follows an app.emit("pipeline-progress", ..)
AnnouncedStages == {"stat generation", "concept image", "mesh", "rigging", "animation"}

SubmitsOf(kind) == SelectSeq(submits, LAMBDA q : q.kind = kind)

\* the call that submits job k
SubmitOp(k) ==
    CASE k = "mesh" -> <<"create_image_to_3d_task">>
      [] k = "rig" -> <<"create_rigging_task">>
      [] OTHER -> <<"create_animation_task", AnimName(k)>>

\* the jobs submitted after job k
Later(k) ==
    CASE k = "mesh" -> {"rig", "idle", "attack"}
      [] k = "rig" -> {"idle", "attack"}
      [] k = "idle" -> {"attack"}
      [] OTHER -> {}

\* the run called job k's submit and got no job id from it
SubmitFailed(k) ==
    /\ \E i \in DOMAIN log : log[i] = Started(SubmitOp(k))
    /\ ids[k] = None

\* C18: a submit is not retried.  The service receives at most one mesh request, one
\* rig request and two animation requests, with action ids 0 and 92; a failed submit
\* ends the run with that error at once, with no later job submitted and no job of
\* that submit or a later one polled.
C18_SubmitNeverRetried ==
    /\ Len(SubmitsOf("image-to-3d")) <= 1
    /\ Len(SubmitsOf("rigging")) <= 1
    /\ Len(SubmitsOf("animations")) <= 2
    /\ \A i, j \in DOMAIN SubmitsOf("animations") :
          /\ SubmitsOf("animations")[i].action_id \in {0, 92}
          /\ i # j => SubmitsOf("animations")[i].action_id #
                      SubmitsOf("animations")[j].action_id
    /\ \A k \in Jobs :
          SubmitFailed(k) =>
              /\ pc = "done" /\ RunFailed
              /\ log[Len(log)] = Started(SubmitOp(k))
              /\ \A j \in Later(k) \cup {k} : poll[j] = NoFrame /\ ret[j] = None
              /\ \A j \in Later(k) : ids[j] = None
              /\ k = "attack" => poll["idle"] = NoFrame

C18_Witness ==
    /\ SubmitFailed("attack")
    /\ Len(submits) = 4
    /\ ids["idle"] # None
    /\ result = Some(Err(<<"Meshy Animation API error: ", "503", " - ", "">>))

----------------------------------------------------------------------------
(* gemini.rs: how generate_robot_status reads the candidate text.  A JSON  *)
(* value is [t, v] with v a sequence: one string or integer, the array's   *)
(* elements, or the object's <<key, value>> entries in iteration order.    *)

JStr(x) == [t |-> "str", v |-> <<x>>]
JInt(n) == [t |-> "int", v |-> <<n>>]
JArr(elems) == [t |-> "arr", v |-> elems]
JObj(entries) == [t |-> "obj", v |-> entries]

Fields == {"name", "lore", "hp", "atk", "def", "visual_description"}
StringFields == {"name", "lore", "visual_description"}

\* RobotStatus: the keys serde accepts for a field (its name and its aliases)
FieldNames(f) ==
    CASE f = "name" -> {"name", "Name"}
      [] f = "lore" -> {"lore", "Lore"}
      [] f = "hp" -> {"hp", "HP"}
      [] f = "atk" -> {"atk", "ATK"}
      [] f = "def" -> {"def", "DEF"}
      [] OTHER -> {"visual_description", "VisualDescription", "visualDescription"}

\* str::to_lowercase on the keys of this model
to_lowercase(k) ==
    CASE k = "Name" -> "name"
      [] k = "Lore" -> "lore"
      [] k = "HP" -> "hp"
      [] k = "ATK" -> "atk"
      [] k = "DEF" -> "def"
      [] k \in {"VisualDescription", "visualDescription"} -> "visualdescription"
      [] OTHER -> k

\* `n as i32` of an i64: the low 32 bits, which is n itself for every n in the i32
\* range, and the integers of this model all are
AsI32(n) == n

\* the value has the JSON type field f is declared with (String or i32)
TypedFor(f, val) == val.t = (IF f \in StringFields THEN "str" ELSE "int")

\* serde_json::from_str::<RobotStatus>(text): a top-level object with each field
\* once, under one of its names, with its type; other keys are ignored
from_str_RobotStatus(v) ==
    IF v.t # "obj" THEN Err(<<"invalid type">>)
    ELSE LET At(f) == {i \in DOMAIN v.v : v.v[i][1] \in FieldNames(f)}
         IN  IF \E f \in Fields : Cardinality(At(f)) = 0 THEN Err(<<"missing field">>)
             ELSE IF \E f \in Fields : Cardinality(At(f)) > 1 THEN Err(<<"duplicate field">>)
             ELSE IF \E f \in Fields : \E i \in At(f) : ~TypedFor(f, v.v[i][2])
               THEN Err(<<"invalid type">>)
             ELSE Ok(<<[f \in Fields |-> LET i == CHOOSE i \in At(f) : TRUE
                                        IN  v.v[i][2].v[1]]>>)

RECURSIVE find_string(_, _)
RECURSIVE find_string_for(_, _, _)

\* find_string, the `for (k, val) in obj` loop from entry i on
find_string_for(entries, i, keys) ==
    IF i > Len(entries) THEN None
    ELSE LET k == entries[i][1]
             val == entries[i][2]
         IN  IF to_lowercase(k) \in keys /\ val.t = "str" THEN Some(val.v[1])
             ELSE LET res == find_string(val, keys)
                  IN  IF res # None THEN res
                      ELSE find_string_for(entries, i + 1, keys)

\* find_string: `if let Some(obj) = v.as_object() { .. } None`
find_string(v, keys) ==
    IF v.t = "obj" THEN find_string_for(v.v, 1, keys) ELSE None

RECURSIVE find_i32(_, _)
RECURSIVE find_i32_for(_, _, _)

\* find_i32, the `for (k, val) in obj` loop from entry i on
find_i32_for(entries, i, keys) ==
    IF i > Len(entries) THEN None
    ELSE LET k == entries[i][1]
             val == entries[i][2]
         IN  IF to_lowercase(k) \in keys /\ val.t = "int" THEN Some(AsI32(val.v[1]))
             ELSE LET res == find_i32(val, keys)
                  IN  IF res # None THEN res
                      ELSE find_i32_for(entries, i + 1, keys)

\* find_i32: `if let Some(obj) = v.as_object() { .. } None`
find_i32(v, keys) ==
    IF v.t = "obj" THEN find_i32_for(v.v, 1, keys) ELSE None

\* Option::unwrap_or / unwrap_or_else
unwrap_or(opt, default) == IF opt = None THEN default ELSE opt[1]

\* the defaults of the fallback
DefaultOf(f) ==
    CASE f = "name" -> "Unknown Robot"
      [] f = "lore" -> "No lore available."
      [] f = "visual_description" -> "A standard mechanical combat robot."
      [] f = "hp" -> 1000
      [] f = "atk" -> 50
      [] OTHER -> 20

\* the keys the fallback searches for field f
SearchKeys(f) ==
    IF f = "visual_description" THEN {"visual_description", "visual_description_en"}
    ELSE {f}

\* the Err(e) arm of the match on from_str::<RobotStatus>: the RobotStatus built
\* from the six searches
fallback_status(v) ==
    [f \in Fields |->
        IF f \in StringFields THEN unwrap_or(find_string(v, SearchKeys(f)), DefaultOf(f))
        ELSE unwrap_or(find_i32(v, SearchKeys(f)), DefaultOf(f))]

\* generate_robot_status from the candidate text on: `let status = match .. ;
\* Ok(status)`, for a text that is valid JSON
status_of_text(v) ==
    LET direct == from_str_RobotStatus(v)
    IN  IF direct.ok THEN direct ELSE Ok(<<fallback_status(v)>>)

----------------------------------------------------------------------------
(* The candidate texts of the stats harness: the six fields, each absent,  *)
(* under the schema's key or under an alias, flat or wrapped.              *)

\* the values the service gives the fields (none equals a default)
GivenValue(f) ==
    CASE f = "name" -> JStr("Sushi Mech")
      [] f = "lore" -> JStr("Built by Oishii Industry")
      [] f = "visual_description" -> JStr("full body standing robot")
      [] f = "hp" -> JInt(1500)
      [] f = "atk" -> JInt(70)
      [] OTHER -> JInt(30)

AliasOf(f) ==
    CASE f = "name" -> "Name"
      [] f = "lore" -> "Lore"
      [] f = "hp" -> "HP"
      [] f = "atk" -> "ATK"
      [] f = "def" -> "DEF"
      [] OTHER -> "VisualDescription"

Spellings == {"absent", "schema", "alias"}
FieldOrder == <<"name", "lore", "hp", "atk", "def", "visual_description">>

RECURSIVE FlatEntries(_, _)
\* the entries of the flat object that spells each field as sp says, from field i on
FlatEntries(sp, i) ==
    IF i > Len(FieldOrder) THEN <<>>
    ELSE LET f == FieldOrder[i]
             rest == FlatEntries(sp, i + 1)
         IN  IF sp[f] = "absent" THEN rest
             ELSE <<<<IF sp[f] = "schema" THEN f ELSE AliasOf(f), GivenValue(f)>>>> \o rest

Wrappings == {"flat", "object", "objects", "array"}

Wrapped(w, v) ==
    CASE w = "flat" -> v
      [] w = "object" -> JObj(<< <<"robot", v>> >>)
      [] w = "objects" -> JObj(<< <<"data", JObj(<< <<"robot", v>> >>)>> >>)
      [] OTHER -> JObj(<< <<"robots", JArr(<<v>>)>> >>)

StatusTexts ==
    {Wrapped(w, JObj(FlatEntries(sp, 1))) : w \in Wrappings, sp \in [Fields -> Spellings]}

InitStats ==
    /\ pc = "parse_stats"
    /\ reply \in {Some(v) : v \in StatusTexts}
    /\ runs = <<>>
    /\ db_lock = "free"
    /\ env = [gemini |-> TRUE, meshy |-> TRUE]
    /\ input_ok = TRUE
    /\ stats = None
    /\ gen_image = None
    /\ ids = NoIds
    /\ submits = <<>>
    /\ poll = [k \in Jobs |-> NoFrame]
    /\ ret = [k \in Jobs |-> None]
    /\ files = <<>>
    /\ robots = <<>>
    /\ result = None
    /\ sink = None
    /\ hist = NoHist
    /\ log = <<>>

\* gemini.rs lines 132-191 on the reply's text
ParseStatus ==
    /\ pc = "parse_stats"
    /\ LET r == status_of_text(reply[1])
       IN  /\ result' = Some(r)
           /\ stats' = IF r.ok THEN Some(r.val[1]) ELSE stats
    /\ pc' = "done"
    /\ UNCHANGED <<env, input_ok, gen_image, ids, submits, poll, ret, files, robots,
                   sink, hist, log, reply, runs, db_lock>>

NextStats == ParseStatus

SpecStats == InitStats /\ [][NextStats]_vars

----------------------------------------------------------------------------
(* Claim about the fallback extractor (checked under SpecStats).           *)

RECURSIVE Present(_, _)
\* somewhere in v, below objects or arrays, field f stands under one of its names
\* with a value of its type
Present(v, f) ==
    CASE v.t = "obj" ->
            \E i \in DOMAIN v.v :
                \/ v.v[i][1] \in FieldNames(f) /\ TypedFor(f, v.v[i][2])
                \/ Present(v.v[i][2], f)
      [] v.t = "arr" -> \E i \in DOMAIN v.v : Present(v.v[i], f)
      [] OTHER -> FALSE

\* the text went through the fallback
FellBack == pc = "done" /\ reply # None /\ ~from_str_RobotStatus(reply[1]).ok

\* C19: for a text that is valid JSON but not the expected flat object, the run gets
\* Ok of a RobotStatus in which every field present in the text, at any depth below
\* the top-level object, has its value from the text and every absent field has its
\* documented default.
C19_FallbackRecoversNestedFields ==
    FellBack =>
        /\ result # None /\ result[1].ok
        /\ \A f \in Fields :
              stats[1][f] = IF Present(reply[1], f) THEN GivenValue(f).v[1]
                            ELSE DefaultOf(f)

----------------------------------------------------------------------------
(* Claims about termination and status classification of the poll loops    *)
(* (C23 under SpecPollLive, C24 under SpecPoll).                           *)

\* C23: whatever the status endpoint answers (transport errors, non-terminal,
\* unrecognized or terminal statuses), a poll loop never sends more than
\* max_attempts + 1 status GETs and eventually returns.
C23_PollLoopTerminates ==
    /\ [](hist.fetches <= max_attempts + 1)
    /\ <>(poll[HJob].st = "returned")

C23_Witness ==
    /\ Answered
    /\ HJob = "rig"
    /\ poll[HJob].st = "returned"
    /\ IsTimeout(HJob)
    /\ IsStatus(Last, UnknownStatuses)
    /\ ~hist.quiet
    /\ hist.fetches = max_attempts + 1

\* C24: the loops classify statuses differently.  The mesh loop returns
\* "Unknown status: <s>" at once, with no further GET, for every status other than
\* SUCCEEDED, FAILED, PENDING and IN_PROGRESS, CANCELED included; the rig and
\* animation loops take every status other than SUCCEEDED, FAILED and CANCELED as
\* non-terminal: they spend an attempt and keep polling until the attempts run out.
C24_StatusClassificationDiffers ==
    /\ (Answered /\ HJob = "mesh" /\ IsStatus(Last, UnknownStatuses \cup {"CANCELED"})) =>
          /\ poll[HJob].st = "returned"
          /\ ret[HJob] = Some(Err(<<"Unknown status: ", Last.status>>))
          /\ hist.after = 0
    /\ (Answered /\ HJob # "mesh"
          /\ IsStatus(Last, UnknownStatuses \cup NonTerminalStatuses)) =>
          IF hist.fetches <= max_attempts
          THEN Polling(HJob) /\ poll[HJob].attempts = hist.fetches /\ ret[HJob] = None
          ELSE poll[HJob].st = "returned" /\ IsTimeout(HJob)

C24_Witness ==
    /\ Answered
    /\ HJob = "attack"
    /\ IsStatus(Last, UnknownStatuses)
    /\ Polling(HJob)
    /\ poll[HJob].attempts = 2
    /\ hist.emitted = Some(<<"Applying Animation (", "Attack", "): ", "0", "%">>)

----------------------------------------------------------------------------
(* Claims about the two animation jobs (checked under Spec).               *)

\* the action ids of the animation requests the service has received, in order
AnimActionIds ==
    [i \in DOMAIN SubmitsOf("animations") |-> SubmitsOf("animations")[i].action_id]

\* C25: the animation jobs are submitted one after the other, idle (action 0) and
\* then attack (action 92), the attack one only once the idle one has its job id; no
\* animation poll function is entered before both have their ids; and when the attack
\* submit fails the run fails with the idle job, already created, never polled.
C25_AnimationSubmitsSequential ==
    /\ Len(AnimActionIds) <= 2
    /\ AnimActionIds = SubSeq(<<0, 92>>, 1, Len(AnimActionIds))
    /\ Len(AnimActionIds) = 2 => ids["idle"] # None
    /\ \A k \in AnimJobs :
          (poll[k] # NoFrame \/ ret[k] # None) => (ids["idle"] # None /\ ids["attack"] # None)
    /\ SubmitFailed("attack") =>
          /\ ids["idle"] # None
          /\ poll["idle"] = NoFrame /\ ret["idle"] = None
          /\ pc = "done" /\ RunFailed

C25_Witness ==
    /\ SubmitFailed("attack")
    /\ AnimActionIds = <<0, 92>>
    /\ ids["idle"] = Some("a0")
    /\ result = Some(Err(<<"Failed to send request to Meshy Animation API: ",
                           "connection error">>))

\* C26: when both animation poll loops failed, the run returns the idle loop's error,
\* in whichever order the two loops failed; it returns the attack loop's error only
\* when the idle loop succeeded (or both errors read the same).
C26_IdleErrorFirst ==
    /\ (pc = "done" /\ Failed("idle") /\ Failed("attack")) =>
          result = Some(ret["idle"][1])
    /\ (pc = "done" /\ Failed("attack") /\ result = Some(ret["attack"][1])) =>
          (Succeeded("idle") \/ ret["idle"] = ret["attack"])

C26_Witness ==
    /\ pc = "done"
    /\ IsTimeout("idle")
    /\ ret["attack"] = Some(Err(<<"Animation task failed or canceled. ID: ", "a92">>))
    /\ result = Some(ret["idle"][1])

----------------------------------------------------------------------------
(* File harness: the asset writes of two runs of run_generation_pipeline   *)
(* in flight at once, each with the id Meshy gave its mesh job, in any     *)
(* interleaving.  A file's content here is <<run, suffix>> of its writer.  *)

Runs == {"A", "B"}

\* the four assets of a run in the order it writes them (lines 77, 80, 115, 116)
AssetSuffixes == <<"_original.png", "_gen.png", "_idle.glb", "_attack.glb">>

\* mesh job ids of the harness; some end in a suffix the run appends
TaskIdPool == {"m1", "m2", "m1_gen.png", "m1_idle.glb"}

InitFiles ==
    /\ pc = "files"
    /\ runs \in {rs \in [Runs -> [task_id : TaskIdPool, written : {0}]] :
                    rs["A"].task_id # rs["B"].task_id}
    /\ env = [gemini |-> TRUE, meshy |-> TRUE]
    /\ input_ok = TRUE
    /\ stats = None
    /\ gen_image = None
    /\ ids = NoIds
    /\ submits = <<>>
    /\ poll = [k \in Jobs |-> NoFrame]
    /\ ret = [k \in Jobs |-> None]
    /\ files = <<>>
    /\ robots = <<>>
    /\ result = None
    /\ sink = None
    /\ hist = NoHist
    /\ log = <<>>
    /\ reply = None
    /\ db_lock = "free"

\* lines 77, 80 (std::fs::write) and 115, 116 (download_glb): run r writes its
\* next asset
WriteAsset(r) ==
    /\ pc = "files"
    /\ runs[r].written < Len(AssetSuffixes)
    /\ LET suffix == AssetSuffixes[runs[r].written + 1]
       IN  files' = Written(FileName(runs[r].task_id, suffix), <<r, suffix>>)
    /\ runs' = [runs EXCEPT ![r].written = @ + 1]
    /\ UNCHANGED <<pc, env, input_ok, stats, gen_image, ids, submits, poll, ret, robots,
                   result, sink, hist, log, reply, db_lock>>

NextFiles == \E r \in Runs : WriteAsset(r)

SpecFiles == InitFiles /\ [][NextFiles]_vars

\* C22: every asset file of a run is named from that run's mesh job id.  Two runs
\* in flight with distinct mesh job ids never write the same name: each file a run
\* has written still holds what that run wrote, and there are as many files as
\* writes; and the four names of one run are pairwise distinct.
C22_PerRunFileNames ==
    /\ \A r \in Runs : \A i \in 1..runs[r].written :
          LET name == FileName(runs[r].task_id, AssetSuffixes[i])
          IN  Exists(name) /\ files[name] = <<r, AssetSuffixes[i]>>
    /\ Cardinality(DOMAIN files) = runs["A"].written + runs["B"].written
    /\ \A r \in Runs : \A i, j \in DOMAIN AssetSuffixes :
          i # j => FileName(runs[r].task_id, AssetSuffixes[i]) #
                   FileName(runs[r].task_id, AssetSuffixes[j])

C22_Witness ==
    /\ pc = "files"
    /\ runs["A"].task_id = "m1" /\ runs["B"].task_id = "m1_gen.png"
    /\ runs["A"].written = 4 /\ runs["B"].written = 4
    /\ files["m1_gen.png"] = <<"A", "_gen.png">>
    /\ files["m1_gen.png_original.png"] = <<"B", "_original.png">>

----------------------------------------------------------------------------
(* Lock harness: one run of run_generation_pipeline with get_all_robots    *)
(* invoked from the presentation layer at any moment, any number of times. *)

InitLock ==
    /\ pc = "stats"
    /\ env = [gemini |-> TRUE, meshy |-> TRUE]
    /\ input_ok \in BOOLEAN
    /\ stats = None
    /\ gen_image = None
    /\ ids = NoIds
    /\ submits = <<>>
    /\ poll = [k \in Jobs |-> NoFrame]
    /\ ret = [k \in Jobs |-> None]
    /\ files = <<>>
    /\ robots = Stored(MaxStored)
    /\ result = None
    /\ sink = None
    /\ hist = NoHist
    /\ log = <<>>
    /\ reply = None
    /\ runs = <<>>
    /\ db_lock = "free"

\* get_all_robots, line 34: `state.lock()`; the call waits while the Mutex is held
GetAllRobotsLock ==
    /\ db_lock = "free"
    /\ db_lock' = "query"
    /\ UNCHANGED <<pc, env, input_ok, stats, gen_image, ids, submits, poll, ret, files,
                   robots, result, sink, hist, log, reply, runs>>

\* get_all_robots, line 35: db::get_robots reads the rows, the call returns them and
\* the guard is dropped
GetAllRobots ==
    /\ db_lock = "query"
    /\ db_lock' = "free"
    /\ UNCHANGED <<pc, env, input_ok, stats, gen_image, ids, submits, poll, ret, files,
                   robots, result, sink, hist, log, reply, runs>>

NextLock == Next \/ GetAllRobotsLock \/ GetAllRobots

SpecLock == InitLock /\ [][NextLock]_vars

\* a poll function of the run has been called and has not returned
InFlight(k) == poll[k].st \in {"called", "running"}

\* C21: the run holds the connection's lock only between `state.lock()` and its
\* return, for the one insert, after every stage succeeded: never while a poll loop
\* is in flight and never once it has returned.  While a poll loop is in flight
\* get_all_robots is not kept waiting by the run: it can take the lock when it is
\* free and return when the query holds it.
C21_LockOnlyForInsert ==
    /\ db_lock = "run" =>
          /\ pc = "insert_locked"
          /\ result = None
          /\ \A k \in Jobs : Succeeded(k) /\ ~InFlight(k)
          /\ HasFile("_idle.glb") /\ HasFile("_attack.glb")
    /\ (\E k \in Jobs : InFlight(k)) =>
          /\ db_lock # "run"
          /\ db_lock = "free" => ENABLED GetAllRobotsLock
          /\ db_lock = "query" => ENABLED GetAllRobots

C21_Witness ==
    /\ pc = "join"
    /\ Polling("idle") /\ poll["idle"].attempts = 3
    /\ InFlight("attack")
    /\ db_lock = "query"

====
